---- MODULE Spec2Model ----
(***************************************************************************)
(* Model of git-walk (src/git-walk.go): main parses its flags, starts      *)
(* `concurrency` worker goroutines that range over the unbuffered channel  *)
(* dirs, walks the tree with filepath.Walk(where, walker), closes dirs and *)
(* waits for the workers.  Every worker runs execute(dir) for each         *)
(* received directory: it runs the child, then reports under the global    *)
(* mutex `output`.                                                         *)
(***************************************************************************)
EXTENDS Integers, Sequences, FiniteSets, TLC

\* ------------------------------------------------------------------ bounds
\* Largest value of the -n flag explored (the pool has 0..MaxConcurrency workers).
MaxConcurrency == 2

\* ------------------------------------------------------- the directory tree
\* The directories below `where`, as paths relative to it, in the lexical
\* order in which filepath.Walk visits them: ., A, A/B, C.
DirOrder == << <<>>, <<"A">>, <<"A", "B">>, <<"C">> >>

Dirs == {DirOrder[k] : k \in 1..Len(DirOrder)}

\* What the walk finds in a directory:
\*   plain    readable, no entry named .git
\*   repo     readable, has a directory named .git
\*   noread   filepath.Walk cannot list it: walker is called with err != nil
\*   flaky    has a directory named .git and filepath.Walk lists it, but the
\*            walker's own ioutil.ReadDir fails
Kinds == {"plain", "repo", "noread", "flaky"}

\* The trees explored: every kind for every directory below `where`; `where`
\* itself is plain, a repository or unlistable.
TreeInputs == {t \in [Dirs -> Kinds] : t[<<>>] # "flaky"}

\* Signals a child can be terminated by.  The Go runtime exits on SIGTERM and
\* takes no action on SIGUSR1 when nothing is registered for it.
Signals == {"SIGTERM", "SIGUSR1"}

FatalSignals == {"SIGTERM"}

\* What a started child writes to its stdout and stderr before it ends: the
\* bytes A and B to stdout, the byte E to stderr.  A child that could not be
\* started writes nothing.
ChildOutputs == { [out |-> <<"A", "B">>, err |-> <<"E">>] }

NoOutput == [out |-> <<>>, err |-> <<>>]

\* The ways child.Run() can end for a started child (err == nil, *ExitError
\* with or without a signal).
RunOutcomes == { [kind |-> "success", sig |-> "none"],
                 [kind |-> "exit", sig |-> "none"] }
               \cup { [kind |-> "signal", sig |-> s] : s \in Signals }

SpawnFailure == [kind |-> "spawn", sig |-> "none"]

NoOutcome == [kind |-> "none", sig |-> "none"]

Workers == 1..MaxConcurrency

NoDir == <<"-">>

VARIABLES
    tree,        \* Dirs -> Kinds: the file system below `where`
    quiet,       \* flag -q
    serial,      \* flag -1
    concurrency, \* flag -n, forced to 1 by serial
    pcMain,      \* position of main: start, spawn, walk, send, wait, done
    i,           \* loop counter of the worker-spawning loop
    wg,          \* counter of the WaitGroup
    todo,        \* directories filepath.Walk still has to visit, next first
    closed,      \* close(dirs) has been called
    output,      \* holder of the mutex `output`, 0 when free
    pc,          \* position of each worker goroutine
    wdir,        \* the dir a worker's execute was called with
    werr,        \* the result of child.Run() in a worker's execute
    wplan,       \* what a worker's running child writes
    streams,     \* what child.Stdout/child.Stderr of a worker's child are
    bufOut,      \* contents of a worker's child.Stdout buffer
    bufErr,      \* contents of a worker's child.Stderr buffer
    alive,       \* the process has not been terminated by a signal
    pendingSig,  \* fatal signals sent to the process and not yet delivered
    \* ---- history of the run
    found,       \* roots the walker decided to send, in order
    visited,     \* directories the walker was called for
    executed,    \* Dirs -> number of calls of execute
    returned,    \* Dirs -> number of returns of execute
    outcomeOf,   \* Dirs -> result of the last child.Run() there
    wroteOf,     \* Dirs -> what the last child there wrote
    relayed,     \* the self.Signal calls made: [dir, sig]
    out          \* the writes made to the process's stdout and stderr, in order

vars == << tree, quiet, serial, concurrency, pcMain, i, wg, todo, closed, output,
           pc, wdir, werr, wplan, streams, bufOut, bufErr, alive, pendingSig,
           found, visited, executed, returned, outcomeOf, wroteOf, relayed, out >>

mainVars == << pcMain, i, wg, todo, closed >>

workerVars == << pc, wdir, werr, wplan, streams, bufOut, bufErr >>

flagVars == << tree, quiet, serial, concurrency >>

histVars == << found, visited, executed, returned, outcomeOf, wroteOf, relayed, out >>

\* ------------------------------------------------------------ pure helpers
IsPrefix(p, q) == Len(p) <= Len(q) /\ SubSeq(q, 1, Len(p)) = p

StrictDescendant(q, p) == Len(p) < Len(q) /\ IsPrefix(p, q)

\* The sub-directories of p, in the order filepath.Walk visits them.
Children(p) == SelectSeq(DirOrder, LAMBDA q : Len(q) = Len(p) + 1 /\ IsPrefix(p, q))

\* A walker that takes every listed directory for a repository root.
HasMarker_Always(k) == TRUE

\* The test of the walker's loop: an entry that is a directory named .git.
HasMarker(k) == k = "repo"

\* One write to the process's stdout or stderr.
\*   src   execute (the report of execute), child (a child writing to the
\*         inherited streams), walker
\*   w     the writing worker, 0 for main
\*   held  the writer holds the mutex `output`
\*   busy  another goroutine holds the mutex `output`
Write(src, w, d, kind, stream, data) ==
    [src |-> src, w |-> w, dir |-> d, kind |-> kind, stream |-> stream, data |-> data,
     held |-> (w # 0 /\ output = w), busy |-> (output # 0 /\ output # w)]

\* A walker that returns nil after the send: Walk descends into the root.
AfterSend_Descend(td) == Children(Head(td)) \o Tail(td)

\* line 173: return filepath.SkipDir.  What filepath.Walk has left to visit
\* when the walker returns SkipDir for the head of td: nothing below it.
AfterSend(td) == Tail(td)

\* An execute that captures the child's output whatever the concurrency.
ChildStreams_Buffer == "buffer"

\* lines 109-115: the child gets the parent's os.Stdout and os.Stderr when
\* concurrency is 1, two new bytes.Buffer otherwise
ChildStreams == IF concurrency = 1 THEN "parent" ELSE "buffer"

\* An execute that flushes the buffers whatever the concurrency.
AfterReport_Flush == "flushOut"

\* line 140: the buffers are flushed unless concurrency is 1
AfterReport == IF concurrency # 1 THEN "flushOut" ELSE "unlock"

\* ---------------------------------------------------------------- Init
Init ==
    /\ tree \in TreeInputs
    /\ quiet \in BOOLEAN
    /\ serial \in BOOLEAN
    /\ concurrency \in 0..MaxConcurrency
    /\ pcMain = "start"
    /\ i = 0
    /\ wg = 0
    /\ todo = <<>>
    /\ closed = FALSE
    /\ output = 0
    /\ pc = [w \in Workers |-> "none"]
    /\ wdir = [w \in Workers |-> NoDir]
    /\ werr = [w \in Workers |-> NoOutcome]
    /\ wplan = [w \in Workers |-> NoOutput]
    /\ streams = [w \in Workers |-> "none"]
    /\ bufOut = [w \in Workers |-> <<>>]
    /\ bufErr = [w \in Workers |-> <<>>]
    /\ alive = TRUE
    /\ pendingSig = {}
    /\ found = <<>>
    /\ visited = {}
    /\ executed = [d \in Dirs |-> 0]
    /\ returned = [d \in Dirs |-> 0]
    /\ outcomeOf = [d \in Dirs |-> NoOutcome]
    /\ wroteOf = [d \in Dirs |-> NoOutput]
    /\ relayed = <<>>
    /\ out = <<>>

\* ---------------------------------------------------------------- main
\* lines 76-78: if serial { concurrency = 1 }
SerialCheck ==
    /\ alive /\ pcMain = "start"
    /\ concurrency' = IF serial THEN 1 ELSE concurrency
    /\ pcMain' = "spawn"
    /\ UNCHANGED << tree, quiet, serial, i, wg, todo, closed, output,
                    alive, pendingSig >>
    /\ UNCHANGED workerVars
    /\ UNCHANGED histVars

\* A loop that runs once more than `concurrency` times.
SpawnWorker_OneMore ==
    /\ alive /\ pcMain = "spawn"
    /\ i <= concurrency /\ i < MaxConcurrency
    /\ wg' = wg + 1
    /\ pc' = [pc EXCEPT ![i + 1] = "recv"]
    /\ i' = i + 1
    /\ UNCHANGED << pcMain, todo, closed, output, alive, pendingSig,
                    wdir, werr, wplan, streams, bufOut, bufErr >>
    /\ UNCHANGED flagVars
    /\ UNCHANGED histVars

\* lines 146-154: one iteration of the loop, wg.Add(1) and go func()
SpawnWorker ==
    /\ alive /\ pcMain = "spawn"
    /\ i < concurrency
    /\ wg' = wg + 1
    /\ pc' = [pc EXCEPT ![i + 1] = "recv"]
    /\ i' = i + 1
    /\ UNCHANGED << pcMain, todo, closed, output, alive, pendingSig,
                    wdir, werr, wplan, streams, bufOut, bufErr >>
    /\ UNCHANGED flagVars
    /\ UNCHANGED histVars

\* line 178: filepath.Walk(where, walker) starts at the root
StartWalk ==
    /\ alive /\ pcMain = "spawn"
    /\ ~(i < concurrency)
    /\ pcMain' = "walk"
    /\ todo' = << <<>> >>
    /\ UNCHANGED << i, wg, closed, output, alive, pendingSig >>
    /\ UNCHANGED flagVars
    /\ UNCHANGED workerVars
    /\ UNCHANGED histVars

\* lines 156-177: filepath.Walk calls walker for the next directory.  For a
\* directory it cannot list, Walk passes the error and does not descend; the
\* walker reports its errors with fmt.Fprintf(os.Stderr, ...) and returns
\* nil; when it finds the marker it goes on to send the path.
Visit ==
    /\ alive /\ pcMain = "walk"
    /\ todo # <<>>
    /\ LET path == Head(todo)
           k == tree[path]
       IN /\ visited' = visited \cup {path}
          /\ CASE k = "noread" ->
                    /\ out' = Append(out, Write("walker", 0, path, "walk", "stderr", <<>>))
                    /\ todo' = Tail(todo)
                    /\ UNCHANGED << pcMain, found >>
               [] k = "flaky" ->
                    /\ out' = Append(out, Write("walker", 0, path, "readdir", "stderr", <<>>))
                    /\ todo' = Children(path) \o Tail(todo)
                    /\ UNCHANGED << pcMain, found >>
               [] k \notin {"noread", "flaky"} /\ HasMarker(k) ->
                    /\ pcMain' = "send"
                    /\ found' = Append(found, path)
                    /\ UNCHANGED << todo, out >>
               [] OTHER ->
                    /\ todo' = Children(path) \o Tail(todo)
                    /\ UNCHANGED << pcMain, found, out >>
    /\ UNCHANGED << i, wg, closed, output, alive, pendingSig >>
    /\ UNCHANGED << executed, returned, outcomeOf, wroteOf, relayed >>
    /\ UNCHANGED flagVars
    /\ UNCHANGED workerVars

\* A handoff that leaves the sent value in the channel: the walker stays in
\* its send and a second receive gets the same path.
Handoff_Dup(w) ==
    /\ alive /\ pcMain = "send"
    /\ pc[w] = "recv"
    /\ wdir' = [wdir EXCEPT ![w] = Head(todo)]
    /\ pc' = [pc EXCEPT ![w] = "run"]
    /\ UNCHANGED << pcMain, i, wg, todo, closed, output, alive, pendingSig,
                    werr, wplan, streams, bufOut, bufErr >>
    /\ UNCHANGED flagVars
    /\ UNCHANGED histVars

\* A handoff to a worker that is not at its receive.
Handoff_Busy(w) ==
    /\ alive /\ pcMain = "send"
    /\ pc[w] \notin {"none", "exited"}
    /\ wdir' = [wdir EXCEPT ![w] = Head(todo)]
    /\ pc' = [pc EXCEPT ![w] = "run"]
    /\ pcMain' = "walk"
    /\ todo' = AfterSend(todo)
    /\ UNCHANGED << i, wg, closed, output, alive, pendingSig,
                    werr, wplan, streams, bufOut, bufErr >>
    /\ UNCHANGED flagVars
    /\ UNCHANGED histVars

\* lines 172-173 with line 149: dirs is unbuffered, so the send `dirs <- path`
\* of the walker and the receive of one ranging worker happen together; the
\* walker then returns filepath.SkipDir and Walk goes on after path's subtree.
Handoff(w) ==
    /\ alive /\ pcMain = "send"
    /\ pc[w] = "recv"
    /\ wdir' = [wdir EXCEPT ![w] = Head(todo)]
    /\ pc' = [pc EXCEPT ![w] = "run"]
    /\ pcMain' = "walk"
    /\ todo' = AfterSend(todo)
    /\ UNCHANGED << i, wg, closed, output, alive, pendingSig,
                    werr, wplan, streams, bufOut, bufErr >>
    /\ UNCHANGED flagVars
    /\ UNCHANGED histVars

\* A main that goes on to wg.Wait() without closing dirs.
CloseDirs_Forgotten ==
    /\ alive /\ pcMain = "walk"
    /\ todo = <<>>
    /\ pcMain' = "wait"
    /\ UNCHANGED << i, wg, todo, closed, output, alive, pendingSig >>
    /\ UNCHANGED flagVars
    /\ UNCHANGED workerVars
    /\ UNCHANGED histVars

\* line 179: filepath.Walk has returned; close(dirs)
CloseDirs ==
    /\ alive /\ pcMain = "walk"
    /\ todo = <<>>
    /\ closed' = TRUE
    /\ pcMain' = "wait"
    /\ UNCHANGED << i, wg, todo, output, alive, pendingSig >>
    /\ UNCHANGED flagVars
    /\ UNCHANGED workerVars
    /\ UNCHANGED histVars

\* A main that returns without waiting for the workers.
WaitDone_NoWait ==
    /\ alive /\ pcMain = "wait"
    /\ pcMain' = "done"
    /\ UNCHANGED << i, wg, todo, closed, output, alive, pendingSig >>
    /\ UNCHANGED flagVars
    /\ UNCHANGED workerVars
    /\ UNCHANGED histVars

\* line 180: wg.Wait() returns when the counter is zero, and main returns
WaitDone ==
    /\ alive /\ pcMain = "wait"
    /\ wg = 0
    /\ pcMain' = "done"
    /\ UNCHANGED << i, wg, todo, closed, output, alive, pendingSig >>
    /\ UNCHANGED flagVars
    /\ UNCHANGED workerVars
    /\ UNCHANGED histVars

\* -------------------------------------------------------------- workers
\* A worker that leaves its loop when no value is offered, closed or not.
WorkerExit_Early(w) ==
    /\ alive /\ pc[w] = "recv"
    /\ pcMain # "send"
    /\ pc' = [pc EXCEPT ![w] = "exited"]
    /\ wg' = wg - 1
    /\ UNCHANGED << pcMain, i, todo, closed, output, alive, pendingSig,
                    wdir, werr, wplan, streams, bufOut, bufErr >>
    /\ UNCHANGED flagVars
    /\ UNCHANGED histVars

\* lines 149-152: the range over dirs ends when dirs is closed (an unbuffered
\* channel holds no value), then wg.Done()
WorkerExit(w) ==
    /\ alive /\ pc[w] = "recv"
    /\ closed
    /\ pc' = [pc EXCEPT ![w] = "exited"]
    /\ wg' = wg - 1
    /\ UNCHANGED << pcMain, i, todo, closed, output, alive, pendingSig,
                    wdir, werr, wplan, streams, bufOut, bufErr >>
    /\ UNCHANGED flagVars
    /\ UNCHANGED histVars

\* lines 104-117, first half: execute builds the child, gives it the parent's
\* streams or two new buffers, and child.Run() starts it, or fails to.
StartChild(w) ==
    /\ alive /\ pc[w] = "run"
    /\ LET d == wdir[w]
       IN /\ executed' = [executed EXCEPT ![d] = @ + 1]
          /\ streams' = [streams EXCEPT ![w] = ChildStreams]
          /\ bufOut' = [bufOut EXCEPT ![w] = <<>>]
          /\ bufErr' = [bufErr EXCEPT ![w] = <<>>]
          /\ \/ /\ werr' = [werr EXCEPT ![w] = SpawnFailure]
                /\ wplan' = [wplan EXCEPT ![w] = NoOutput]
                /\ outcomeOf' = [outcomeOf EXCEPT ![d] = SpawnFailure]
                /\ wroteOf' = [wroteOf EXCEPT ![d] = NoOutput]
                /\ pc' = [pc EXCEPT ![w] = "lock"]
             \/ \E plan \in ChildOutputs :
                /\ wplan' = [wplan EXCEPT ![w] = plan]
                /\ wroteOf' = [wroteOf EXCEPT ![d] = plan]
                /\ werr' = [werr EXCEPT ![w] = NoOutcome]
                /\ outcomeOf' = [outcomeOf EXCEPT ![d] = NoOutcome]
                /\ pc' = [pc EXCEPT ![w] = "child"]
    /\ UNCHANGED << wdir, output, alive, pendingSig >>
    /\ UNCHANGED << found, visited, returned, relayed, out >>
    /\ UNCHANGED mainVars
    /\ UNCHANGED flagVars

\* lines 110-111: a child that has the parent's os.Stdout and os.Stderr
\* writes to them itself, while it runs.
ChildWrite(w) ==
    /\ alive /\ pc[w] = "child"
    /\ streams[w] = "parent"
    /\ wplan[w] # NoOutput
    /\ IF wplan[w].out # <<>>
       THEN /\ out' = Append(out, Write("child", w, wdir[w], "stdout", "stdout",
                                        << Head(wplan[w].out) >>))
            /\ wplan' = [wplan EXCEPT ![w].out = Tail(@)]
       ELSE /\ out' = Append(out, Write("child", w, wdir[w], "stderr", "stderr",
                                        << Head(wplan[w].err) >>))
            /\ wplan' = [wplan EXCEPT ![w].err = Tail(@)]
    /\ UNCHANGED << pc, wdir, werr, streams, bufOut, bufErr, output, alive, pendingSig >>
    /\ UNCHANGED << found, visited, executed, returned, outcomeOf, wroteOf, relayed >>
    /\ UNCHANGED mainVars
    /\ UNCHANGED flagVars

\* line 117, second half: the child ends and child.Run() returns nil or an
\* *exec.ExitError; what the child wrote to its buffers is in them.
ChildExit(w) ==
    /\ alive /\ pc[w] = "child"
    /\ streams[w] = "parent" => wplan[w] = NoOutput
    /\ \E o \in RunOutcomes :
        /\ werr' = [werr EXCEPT ![w] = o]
        /\ outcomeOf' = [outcomeOf EXCEPT ![wdir[w]] = o]
    /\ IF streams[w] = "buffer"
       THEN /\ bufOut' = [bufOut EXCEPT ![w] = wplan[w].out]
            /\ bufErr' = [bufErr EXCEPT ![w] = wplan[w].err]
       ELSE UNCHANGED << bufOut, bufErr >>
    /\ wplan' = [wplan EXCEPT ![w] = NoOutput]
    /\ pc' = [pc EXCEPT ![w] = "lock"]
    /\ UNCHANGED << wdir, streams, output, alive, pendingSig >>
    /\ UNCHANGED << found, visited, executed, returned, wroteOf, relayed, out >>
    /\ UNCHANGED mainVars
    /\ UNCHANGED flagVars

\* A Lock that does not wait for the mutex to be free.
Lock_NoWait(w) ==
    /\ alive /\ pc[w] = "lock"
    /\ output' = w
    /\ pc' = [pc EXCEPT ![w] = "report"]
    /\ UNCHANGED << wdir, werr, wplan, streams, bufOut, bufErr, alive, pendingSig >>
    /\ UNCHANGED mainVars
    /\ UNCHANGED flagVars
    /\ UNCHANGED histVars

\* line 119: output.Lock()
Lock(w) ==
    /\ alive /\ pc[w] = "lock"
    /\ output = 0
    /\ output' = w
    /\ pc' = [pc EXCEPT ![w] = "report"]
    /\ UNCHANGED << wdir, werr, wplan, streams, bufOut, bufErr, alive, pendingSig >>
    /\ UNCHANGED mainVars
    /\ UNCHANGED flagVars
    /\ UNCHANGED histVars

\* A report that leaves the failure line of an ExitError for after the relay.
Report_RelayFirst(w) ==
    /\ alive /\ pc[w] = "report"
    /\ LET d == wdir[w]
           k == werr[w].kind
       IN CASE k = "success" ->
                 /\ out' = IF ~quiet
                           THEN Append(out, Write("execute", w, d, "ok", "stdout", <<>>))
                           ELSE out
                 /\ pc' = [pc EXCEPT ![w] = AfterReport]
            [] k \in {"exit", "signal"} ->
                 /\ out' = out
                 /\ pc' = [pc EXCEPT ![w] = "relay"]
            [] OTHER ->
                 /\ out' = Append(out, Write("execute", w, d, "fail", "stderr", <<>>))
                 /\ pc' = [pc EXCEPT ![w] = AfterReport]
    /\ UNCHANGED << wdir, werr, wplan, streams, bufOut, bufErr, output, alive, pendingSig >>
    /\ UNCHANGED << found, visited, executed, returned, outcomeOf, wroteOf, relayed >>
    /\ UNCHANGED mainVars
    /\ UNCHANGED flagVars

\* A report that prints the success line whatever quiet says.
Report_IgnoreQuiet(w) ==
    /\ alive /\ pc[w] = "report"
    /\ LET d == wdir[w]
           k == werr[w].kind
       IN CASE k = "success" ->
                 /\ out' = Append(out, Write("execute", w, d, "ok", "stdout", <<>>))
                 /\ pc' = [pc EXCEPT ![w] = AfterReport]
            [] k \in {"exit", "signal"} ->
                 /\ out' = Append(out, Write("execute", w, d, "fail", "stderr", <<>>))
                 /\ pc' = [pc EXCEPT ![w] = "relay"]
            [] OTHER ->
                 /\ out' = Append(out, Write("execute", w, d, "fail", "stderr", <<>>))
                 /\ pc' = [pc EXCEPT ![w] = AfterReport]
    /\ UNCHANGED << wdir, werr, wplan, streams, bufOut, bufErr, output, alive, pendingSig >>
    /\ UNCHANGED << found, visited, executed, returned, outcomeOf, wroteOf, relayed >>
    /\ UNCHANGED mainVars
    /\ UNCHANGED flagVars

\* lines 121-128 and 136-139: the status line of a success unless quiet, the
\* failure line of an ExitError or of any other error.
Report(w) ==
    /\ alive /\ pc[w] = "report"
    /\ LET d == wdir[w]
           k == werr[w].kind
       IN CASE k = "success" ->
                 /\ out' = IF ~quiet
                           THEN Append(out, Write("execute", w, d, "ok", "stdout", <<>>))
                           ELSE out
                 /\ pc' = [pc EXCEPT ![w] = AfterReport]
            [] k \in {"exit", "signal"} ->
                 /\ out' = Append(out, Write("execute", w, d, "fail", "stderr", <<>>))
                 /\ pc' = [pc EXCEPT ![w] = "relay"]
            [] OTHER ->
                 /\ out' = Append(out, Write("execute", w, d, "fail", "stderr", <<>>))
                 /\ pc' = [pc EXCEPT ![w] = AfterReport]
    /\ UNCHANGED << wdir, werr, wplan, streams, bufOut, bufErr, output, alive, pendingSig >>
    /\ UNCHANGED << found, visited, executed, returned, outcomeOf, wroteOf, relayed >>
    /\ UNCHANGED mainVars
    /\ UNCHANGED flagVars

\* A relay that does not test status.Signaled().
Relay_Always(w) ==
    /\ alive /\ pc[w] = "relay"
    /\ relayed' = Append(relayed, [dir |-> wdir[w], sig |-> werr[w].sig])
    /\ pendingSig' = pendingSig \cup ({werr[w].sig} \cap FatalSignals)
    /\ pc' = [pc EXCEPT ![w] = AfterReport]
    /\ UNCHANGED << wdir, werr, wplan, streams, bufOut, bufErr, output, alive >>
    /\ UNCHANGED << found, visited, executed, returned, outcomeOf, wroteOf, out >>
    /\ UNCHANGED mainVars
    /\ UNCHANGED flagVars

\* lines 130-135: if the child was signaled, self.Signal(status.Signal())
Relay(w) ==
    /\ alive /\ pc[w] = "relay"
    /\ IF werr[w].kind = "signal"
       THEN /\ relayed' = Append(relayed, [dir |-> wdir[w], sig |-> werr[w].sig])
            /\ pendingSig' = pendingSig \cup ({werr[w].sig} \cap FatalSignals)
       ELSE UNCHANGED << relayed, pendingSig >>
    /\ pc' = [pc EXCEPT ![w] = AfterReport]
    /\ UNCHANGED << wdir, werr, wplan, streams, bufOut, bufErr, output, alive >>
    /\ UNCHANGED << found, visited, executed, returned, outcomeOf, wroteOf, out >>
    /\ UNCHANGED mainVars
    /\ UNCHANGED flagVars

\* A flush that writes the stdout buffer without its first byte.
FlushOut_Short(w) ==
    /\ alive /\ pc[w] = "flushOut"
    /\ out' = Append(out, Write("execute", w, wdir[w], "stdout", "stdout",
                                IF bufOut[w] = <<>> THEN <<>> ELSE Tail(bufOut[w])))
    /\ pc' = [pc EXCEPT ![w] = "flushErr"]
    /\ UNCHANGED << wdir, werr, wplan, streams, bufOut, bufErr, output, alive, pendingSig >>
    /\ UNCHANGED << found, visited, executed, returned, outcomeOf, wroteOf, relayed >>
    /\ UNCHANGED mainVars
    /\ UNCHANGED flagVars

\* line 141: os.Stdout.Write(child.Stdout.(*bytes.Buffer).Bytes())
FlushOut(w) ==
    /\ alive /\ pc[w] = "flushOut"
    /\ out' = Append(out, Write("execute", w, wdir[w], "stdout", "stdout", bufOut[w]))
    /\ pc' = [pc EXCEPT ![w] = "flushErr"]
    /\ UNCHANGED << wdir, werr, wplan, streams, bufOut, bufErr, output, alive, pendingSig >>
    /\ UNCHANGED << found, visited, executed, returned, outcomeOf, wroteOf, relayed >>
    /\ UNCHANGED mainVars
    /\ UNCHANGED flagVars

\* line 142: os.Stderr.Write(child.Stderr.(*bytes.Buffer).Bytes())
FlushErr(w) ==
    /\ alive /\ pc[w] = "flushErr"
    /\ out' = Append(out, Write("execute", w, wdir[w], "stderr", "stderr", bufErr[w]))
    /\ pc' = [pc EXCEPT ![w] = "unlock"]
    /\ UNCHANGED << wdir, werr, wplan, streams, bufOut, bufErr, output, alive, pendingSig >>
    /\ UNCHANGED << found, visited, executed, returned, outcomeOf, wroteOf, relayed >>
    /\ UNCHANGED mainVars
    /\ UNCHANGED flagVars

\* An execute whose failure ends the worker's loop.
Unlock_QuitOnFailure(w) ==
    /\ alive /\ pc[w] = "unlock"
    /\ output' = 0
    /\ returned' = [returned EXCEPT ![wdir[w]] = @ + 1]
    /\ pc' = [pc EXCEPT ![w] = IF werr[w].kind \in {"spawn", "exit"} THEN "exited" ELSE "recv"]
    /\ UNCHANGED << wdir, werr, wplan, streams, bufOut, bufErr, alive, pendingSig >>
    /\ UNCHANGED << found, visited, executed, outcomeOf, wroteOf, relayed, out >>
    /\ UNCHANGED mainVars
    /\ UNCHANGED flagVars

\* An execute that returns without output.Unlock().
Unlock_Forgotten(w) ==
    /\ alive /\ pc[w] = "unlock"
    /\ returned' = [returned EXCEPT ![wdir[w]] = @ + 1]
    /\ pc' = [pc EXCEPT ![w] = "recv"]
    /\ UNCHANGED << wdir, werr, wplan, streams, bufOut, bufErr, output, alive, pendingSig >>
    /\ UNCHANGED << found, visited, executed, outcomeOf, wroteOf, relayed, out >>
    /\ UNCHANGED mainVars
    /\ UNCHANGED flagVars

\* lines 120 and 144: the deferred output.Unlock() runs as execute returns to
\* the range loop of line 149
Unlock(w) ==
    /\ alive /\ pc[w] = "unlock"
    /\ output' = 0
    /\ returned' = [returned EXCEPT ![wdir[w]] = @ + 1]
    /\ pc' = [pc EXCEPT ![w] = "recv"]
    /\ UNCHANGED << wdir, werr, wplan, streams, bufOut, bufErr, alive, pendingSig >>
    /\ UNCHANGED << found, visited, executed, outcomeOf, wroteOf, relayed, out >>
    /\ UNCHANGED mainVars
    /\ UNCHANGED flagVars

\* line 134: a fatal signal the process sent to itself terminates it
Die ==
    /\ alive /\ pcMain # "done"
    /\ pendingSig # {}
    /\ alive' = FALSE
    /\ UNCHANGED << output, pendingSig >>
    /\ UNCHANGED mainVars
    /\ UNCHANGED flagVars
    /\ UNCHANGED workerVars
    /\ UNCHANGED histVars

\* ------------------------------------------------------------ the program
MainStep ==
    \/ SerialCheck
    \/ SpawnWorker
    \/ StartWalk
    \/ Visit
    \/ CloseDirs
    \/ WaitDone

WorkerStep(w) ==
    \/ Handoff(w)
    \/ WorkerExit(w)
    \/ StartChild(w)
    \/ ChildWrite(w)
    \/ ChildExit(w)
    \/ Lock(w)
    \/ Report(w)
    \/ Relay(w)
    \/ FlushOut(w)
    \/ FlushErr(w)
    \/ Unlock(w)

Next ==
    \/ MainStep
    \/ \E w \in Workers : WorkerStep(w)
    \/ Die

Spec == Init /\ [][Next]_vars

\* The runs explored for termination: the flag -q, which no step of the
\* scheduling depends on, is off, and `where` is a readable directory that is
\* not itself a repository, so that the walk goes below it.
FairInit == Init /\ ~quiet /\ tree[<<>>] = "plain"

\* Every goroutine that can take a step eventually takes one, every started
\* child ends, and a fatal signal sent to the process is delivered.
FairSpec ==
    /\ FairInit /\ [][Next]_vars
    /\ WF_vars(MainStep)
    /\ \A w \in Workers : WF_vars(WorkerStep(w))
    /\ WF_vars(Die)

TypeOK ==
    /\ pcMain \in {"start", "spawn", "walk", "send", "wait", "done"}
    /\ \A w \in Workers : pc[w] \in {"none", "recv", "run", "child", "lock", "report",
                                      "relay", "flushOut", "flushErr", "unlock", "exited"}
    /\ output \in 0..MaxConcurrency
    /\ wg \in 0..MaxConcurrency

\* ------------------------------------------------- reading the history
Range(f) == {f[k] : k \in DOMAIN f}

\* The positions of a worker inside the critical section of execute.
InCS(w) == pc[w] \in {"report", "relay", "flushOut", "flushErr", "unlock"}

\* The writes made by the reports of execute, in order.
ExecuteWrites == SelectSeq(out, LAMBDA r : r.src = "execute")

\* The self.Signal calls made for the invocation in d.
RelaysOf(d) == SelectSeq(relayed, LAMBDA r : r.dir = d)

\* The status or failure lines written for the invocation in d.
LinesOf(d, kind) == SelectSeq(out, LAMBDA r : r.src = "execute" /\ r.dir = d /\ r.kind = kind)

\* The invocation in d is past the if/else of lines 121-139.
PastStatus(d) ==
    \/ returned[d] >= 1
    \/ \E w \in Workers : wdir[w] = d /\ pc[w] \in {"relay", "flushOut", "flushErr", "unlock"}

\* The invocation in d is past the relay of lines 130-135.
PastRelay(d) ==
    \/ returned[d] >= 1
    \/ \E w \in Workers : wdir[w] = d /\ pc[w] \in {"flushOut", "flushErr", "unlock"}

DirA == <<"A">>

DirAB == <<"A", "B">>

DirC == <<"C">>

\* The tree {A/.git/, A/B/.git/, C/}.
ExampleTree == tree = [d \in Dirs |-> IF d \in {DirA, DirAB} THEN "repo" ELSE "plain"]

\* ------------------------------------------------------------------ claims

\* C1: no root is executed twice, in any state; and when main has returned,
\* execute has been called, and has returned, exactly once for each root the
\* walker found and for no other directory, so the number of invocations is
\* the number of roots found.
C1_ExactlyOncePerRoot ==
    /\ \A d \in Dirs : executed[d] <= 1
    /\ \A k1, k2 \in DOMAIN found : found[k1] = found[k2] => k1 = k2
    /\ pcMain = "done" =>
         \A d \in Dirs : /\ executed[d] = (IF d \in Range(found) THEN 1 ELSE 0)
                         /\ returned[d] = executed[d]

\* C1 witness: a finished run of two workers that found two roots, each
\* reported by a different worker.
C1_Witness ==
    /\ pcMain = "done" /\ concurrency = 2 /\ Len(found) = 2
    /\ \E a, b \in DOMAIN out : out[a].src = "execute" /\ out[b].src = "execute"
                                /\ out[a].w # out[b].w

\* C2: at most one worker is between output.Lock() and output.Unlock(), it is
\* the holder of the mutex, and in the sequence of writes the writes of one
\* execute call are never separated by a write of another execute call: a
\* write of an execute call that has a later write is followed by a write of
\* the same call.
C2_MutualExclusion ==
    /\ Cardinality({w \in Workers : InCS(w)}) <= 1
    /\ \A w \in Workers : InCS(w) => output = w
    /\ \A a, b \in DOMAIN ExecuteWrites :
         ( /\ a < b
           /\ ExecuteWrites[a].dir = ExecuteWrites[b].dir
           /\ ExecuteWrites[a].w = ExecuteWrites[b].w )
         => ( /\ ExecuteWrites[a + 1].dir = ExecuteWrites[a].dir
              /\ ExecuteWrites[a + 1].w = ExecuteWrites[a].w )

\* C2 witness: with more than one worker, one is writing its captured output
\* in the critical section while another waits for the mutex.
C2_Witness ==
    /\ concurrency > 1
    /\ \E w1, w2 \in Workers : w1 # w2 /\ pc[w1] = "flushErr" /\ pc[w2] = "lock"

\* C3: for a directory P the walker was called for and could list, with a
\* directory .git in it: P is never executed twice, no strict descendant of P
\* is ever visited or executed, also one that holds a .git itself, and when
\* main has returned P has been executed exactly once.
C3_Pruning ==
    \A P \in visited :
        tree[P] = "repo" =>
            /\ executed[P] <= 1
            /\ pcMain = "done" => executed[P] = 1
            /\ \A Q \in Dirs : StrictDescendant(Q, P) => (Q \notin visited /\ executed[Q] = 0)

\* C3 witness: a finished run over a tree where the repository A holds the
\* repository A/B.
C3_Witness ==
    /\ pcMain = "done"
    /\ tree[DirA] = "repo" /\ tree[DirAB] = "repo"
    /\ executed[DirA] = 1

\* C4 as stated: on the tree {A/.git/, A/B/.git/, C/} a finished run has made
\* exactly two invocations, one in A and one in A/B.
C4_Original ==
    (ExampleTree /\ pcMain = "done" /\ concurrency >= 1) =>
        /\ executed[DirA] = 1
        /\ executed[DirAB] = 1
        /\ executed[DirC] = 0
        /\ executed[<<>>] = 0

\* C4 amended: on the tree {A/.git/, A/B/.git/, C/} a finished run has made
\* exactly one invocation, in A; A/B lies in the pruned subtree of A and is
\* neither visited nor executed, and C and the root yield none.
C4_ExampleTree ==
    (ExampleTree /\ pcMain = "done") =>
        /\ executed[DirA] = 1 /\ returned[DirA] = 1
        /\ executed[DirAB] = 0 /\ DirAB \notin visited
        /\ executed[DirC] = 0 /\ DirC \in visited
        /\ executed[<<>>] = 0
        /\ found = << DirA >>

\* C4 witness: a finished run over the example tree.
C4_Witness == ExampleTree /\ pcMain = "done" /\ concurrency >= 1

\* The writes of execute for the invocation in d hold, one after the other and
\* each made by the holder of the mutex, the stdout buffer and the stderr
\* buffer with all that the child wrote; `line` tells whether the status or
\* failure line has to be the write right before them.
FlushedAt(seq, d, line) ==
    \E k \in DOMAIN seq :
        /\ k + 1 \in DOMAIN seq
        /\ seq[k].src = "execute" /\ seq[k].dir = d /\ seq[k].kind = "stdout"
        /\ seq[k].data = wroteOf[d].out /\ seq[k].held
        /\ seq[k + 1].src = "execute" /\ seq[k + 1].dir = d /\ seq[k + 1].kind = "stderr"
        /\ seq[k + 1].data = wroteOf[d].err /\ seq[k + 1].held
        /\ seq[k + 1].w = seq[k].w
        /\ line => /\ k - 1 \in DOMAIN seq
                   /\ seq[k - 1].src = "execute" /\ seq[k - 1].dir = d
                   /\ seq[k - 1].kind \in {"ok", "fail"}
                   /\ seq[k - 1].w = seq[k].w /\ seq[k - 1].held

\* C5 as stated: in Buffered mode, for every invocation that execute has
\* returned from, whatever its outcome and whatever quiet, the combined
\* output holds the invocation's status line and right after it, with no
\* other write in between, all bytes the child wrote.
C5_Original ==
    \A d \in Dirs :
        (concurrency > 1 /\ returned[d] >= 1) => FlushedAt(out, d, TRUE)

\* C5 amended: in Buffered mode, for every invocation that execute has
\* returned from, all bytes the child wrote are written in full, stdout then
\* stderr, in one critical section; among the writes of execute calls they
\* come right after the invocation's status or failure line, which is there
\* unless the outcome is Success and quiet is on.
C5_BufferedFlush ==
    \A d \in Dirs :
        (concurrency > 1 /\ returned[d] >= 1) =>
            FlushedAt(ExecuteWrites, d, ~(quiet /\ outcomeOf[d].kind = "success"))

\* C5 witness: in Buffered mode two invocations have returned, one of a child
\* that wrote AB and E and ended with a nonzero exit, one of a child that
\* could not be started.
C5_Witness ==
    /\ concurrency > 1
    /\ \E d1, d2 \in Dirs :
        /\ returned[d1] = 1 /\ returned[d2] = 1
        /\ outcomeOf[d1].kind = "exit" /\ wroteOf[d1].out = <<"A", "B">>
        /\ outcomeOf[d2].kind = "spawn"

\* C6: the process signals itself for an invocation at most once, only when
\* that invocation's child was terminated by a signal and with that same
\* signal; and once an invocation is past the error branch of execute, it has
\* been relayed exactly once if its child was signaled and never otherwise
\* (Success, nonzero exit, spawn failure).
C6_SignalRelay ==
    \A d \in Dirs :
        /\ Len(RelaysOf(d)) <= 1
        /\ \A k \in DOMAIN relayed :
             relayed[k].dir = d =>
                 (outcomeOf[d].kind = "signal" /\ relayed[k].sig = outcomeOf[d].sig)
        /\ PastRelay(d) =>
             (Len(RelaysOf(d)) = 1 <=> outcomeOf[d].kind = "signal")

\* C6 witness: one invocation ended by SIGUSR1 has been relayed and its
\* execute has returned, another that exited nonzero has returned unrelayed.
C6_Witness ==
    \E d1, d2 \in Dirs :
        /\ returned[d1] = 1 /\ outcomeOf[d1] = [kind |-> "signal", sig |-> "SIGUSR1"]
        /\ RelaysOf(d1) = << [dir |-> d1, sig |-> "SIGUSR1"] >>
        /\ returned[d2] = 1 /\ outcomeOf[d2].kind = "exit"
        /\ RelaysOf(d2) = <<>>

\* C7: with quiet no success line is ever written; an invocation past its
\* status branch has written exactly one failure line, to stderr, if it ended
\* in ExitFailure, SignalTermination or SpawnFailure, and none if it
\* succeeded; without quiet a successful one has written exactly one status
\* line, to stdout.
C7_QuietMode ==
    /\ quiet => \A k \in DOMAIN out : out[k].kind # "ok"
    /\ \A k \in DOMAIN out :
         /\ out[k].kind = "ok" => out[k].stream = "stdout"
         /\ out[k].kind = "fail" => out[k].stream = "stderr"
    /\ \A d \in Dirs :
         PastStatus(d) =>
             /\ Len(LinesOf(d, "fail")) =
                    (IF outcomeOf[d].kind \in {"exit", "signal", "spawn"} THEN 1 ELSE 0)
             /\ Len(LinesOf(d, "ok")) =
                    (IF outcomeOf[d].kind = "success" /\ ~quiet THEN 1 ELSE 0)

\* C7 witness: under quiet, a successful invocation and a failed one have
\* both returned.
C7_Witness ==
    /\ quiet
    /\ \E d1, d2 \in Dirs :
        /\ returned[d1] = 1 /\ outcomeOf[d1].kind = "success"
        /\ returned[d2] = 1 /\ outcomeOf[d2].kind = "exit"
        /\ Len(LinesOf(d2, "fail")) = 1

\* C8: the process is terminated only after a child ended by a signal has
\* been relayed; a worker leaves its loop only when dirs is closed, so the one
\* that ran a failed invocation is back at the receive; and a run that
\* finishes has executed every root found, whatever failed.
C8_ErrorIsolation ==
    /\ ~alive => \E k \in DOMAIN relayed :
                    /\ relayed[k].sig \in FatalSignals
                    /\ outcomeOf[relayed[k].dir].kind = "signal"
    /\ \A w \in Workers : pc[w] = "exited" => closed
    /\ \A d \in Dirs :
         (returned[d] >= 1 /\ outcomeOf[d].kind \in {"spawn", "exit"}) =>
             \A w \in Workers : wdir[w] = d => pc[w] \in {"recv", "exited"}
    /\ pcMain = "done" => \A k \in DOMAIN found : returned[found[k]] = 1

\* C8 witness: the single worker ran an invocation that could not be started,
\* then one that exited nonzero, and main has returned.
C8_Witness ==
    /\ concurrency = 1 /\ pcMain = "done" /\ Len(found) = 2
    /\ outcomeOf[found[1]].kind = "spawn"
    /\ outcomeOf[found[2]].kind = "exit"

\* C9: every failure line (of the walker: walk, readdir; of execute: fail) is
\* written by a goroutine that holds the mutex output, hence never while
\* another goroutine is in its critical section.
C9_FailureLinesUnderLock ==
    \A k \in DOMAIN out :
        out[k].kind \in {"walk", "readdir", "fail"} => (out[k].held /\ ~out[k].busy)

\* Every worker goroutine that was started has left its loop.
WorkersTerminated == \A w \in Workers : pc[w] \in {"none", "exited"}

\* The size of the pool once lines 76-78 have run.
EffectiveConcurrency == IF pcMain = "start" /\ serial THEN 1 ELSE concurrency

\* C10 as stated, read for a pool of at least one worker: no send of the
\* walker and no wait for the mutex lasts for ever, and eventually dirs is
\* closed, every worker has terminated and main has returned.
C10_Original ==
    /\ []<>(concurrency < 1 \/ (pcMain # "send" /\ \A w \in Workers : pc[w] # "lock"))
    /\ (EffectiveConcurrency >= 1) ~> (pcMain = "done" /\ closed /\ WorkersTerminated)

\* C10 amended: with a pool of at least one worker, unless a relayed signal
\* terminates the process first, no send of the walker and no wait for the
\* mutex lasts for ever, and eventually dirs is closed, every worker has
\* terminated and main has returned.
C10_Termination ==
    /\ []<>(~alive \/ concurrency < 1 \/ (pcMain # "send" /\ \A w \in Workers : pc[w] # "lock"))
    /\ (EffectiveConcurrency >= 1) ~>
           (~alive \/ (pcMain = "done" /\ closed /\ WorkersTerminated))

\* C10 witness: main has returned from a run in which the single worker ran
\* two roots, so the walker's second send had to wait for it, and in which a
\* relayed SIGUSR1 left the process running.
C10_Witness ==
    /\ pcMain = "done" /\ concurrency = 1 /\ Len(found) = 2
    /\ WorkersTerminated
    /\ Len(relayed) >= 1

\* The worker goroutines that have been started.
Started == {w \in Workers : pc[w] # "none"}

\* C11: once the loop of lines 146-154 is over, the pool has exactly
\* `concurrency` workers, and that is at least one; so when the walker is in
\* its send there is a worker that has not left its loop.
C11_PoolSize ==
    pcMain \notin {"start", "spawn"} =>
        /\ Cardinality(Started) = concurrency
        /\ Cardinality(Started) >= 1
        /\ pcMain = "send" => \E w \in Started : pc[w] # "exited"

\* C12: when main has returned from wg.Wait(), dirs is closed, every worker
\* has terminated, no child is running, nobody holds the mutex, and execute
\* has returned for every root it was called for.
C12_JoinBarrier ==
    pcMain = "done" =>
        /\ closed
        /\ wg = 0
        /\ \A w \in Workers : pc[w] \in {"none", "exited"}
        /\ output = 0
        /\ \A d \in Dirs : returned[d] = executed[d]
        /\ \A k \in DOMAIN found : returned[found[k]] >= 1

\* C12 witness: main has returned after two workers, both terminated, ran
\* one root each or one ran both.
C12_Witness ==
    /\ pcMain = "done" /\ concurrency = 2
    /\ pc[1] = "exited" /\ pc[2] = "exited"
    /\ Len(found) = 2 /\ returned[found[2]] = 1

\* C13: dirs is closed only by the step that follows the return of the walk,
\* and that step is taken once, with dirs open; the walker is never in its
\* send with dirs closed; a worker terminates only from its receive, with
\* dirs closed and no send pending, so none has terminated while dirs is open.
C13_Shutdown ==
    /\ [](closed => (pcMain \in {"wait", "done"} /\ todo = <<>>))
    /\ [](\A w \in Workers : pc[w] = "exited" => closed)
    /\ [][ /\ closed => closed'
           /\ (pcMain = "walk" /\ pcMain' = "wait") => (~closed /\ closed')
           /\ (~closed /\ closed') => (pcMain = "walk" /\ todo = <<>> /\ pcMain' = "wait")
           /\ \A w \in Workers :
                (pc[w] # "exited" /\ pc'[w] = "exited") =>
                    (pc[w] = "recv" /\ closed /\ pcMain # "send") ]_vars

\* C13 witness: dirs is closed, one worker has terminated and another is
\* still reporting the root it received before the close.
C13_Witness ==
    /\ closed
    /\ \E w1, w2 \in Workers : pc[w1] = "exited" /\ pc[w2] = "flushOut"

\* The workers whose child process is running.
Running == {w \in Workers : pc[w] = "child"}

\* The workers that are inside a call of execute.
Executing == {w \in Workers : pc[w] \notin {"none", "recv", "exited"}}

\* C14: a worker is in at most one call of execute, for a directory that no
\* other worker is executing, and the calls made and not yet returned are
\* those of the executing workers; so the children running are at most
\* `concurrency`, and at most one when concurrency is 1.
C14_BoundedFanOut ==
    /\ Cardinality(Running) <= concurrency
    /\ concurrency = 1 => Cardinality(Running) <= 1
    /\ Cardinality(Executing) <= concurrency
    /\ \A w1, w2 \in Executing : wdir[w1] = wdir[w2] => w1 = w2
    /\ \A d \in Dirs :
         executed[d] - returned[d] =
             Cardinality({w \in Executing : pc[w] # "run" /\ wdir[w] = d})

\* C14 witness: with concurrency 2, two children are running at once.
C14_Witness == concurrency = 2 /\ Cardinality(Running) = 2

\* C15: every invocation of a run is made in the mode that `concurrency`
\* gives: the child of an executing worker has buffers exactly when
\* concurrency is not 1, a worker is at the flush only with buffers, children
\* write to the parent's streams only when concurrency is 1, and buffers are
\* written out only when it is not; an invocation that has returned has been
\* flushed exactly when it had buffers.
C15_ModeInvariant ==
    /\ \A w \in Executing :
         pc[w] # "run" => streams[w] = (IF concurrency = 1 THEN "parent" ELSE "buffer")
    /\ \A w \in Workers : pc[w] \in {"flushOut", "flushErr"} => streams[w] = "buffer"
    /\ \A k \in DOMAIN out :
         /\ out[k].src = "child" => concurrency = 1
         /\ (out[k].src = "execute" /\ out[k].kind \in {"stdout", "stderr"}) => concurrency # 1
    /\ \A w \in Workers :
         (pc[w] \in {"unlock", "recv", "exited"} /\ wdir[w] # NoDir) =>
             (streams[w] = "buffer" <=> Len(LinesOf(wdir[w], "stderr")) = 1)

\* C15 witness: in Direct mode an invocation has returned without a flush.
C15_Witness ==
    /\ concurrency = 1
    /\ \E w \in Workers : /\ pc[w] = "recv" /\ wdir[w] # NoDir /\ streams[w] = "parent"
                          /\ returned[wdir[w]] = 1
                          /\ Len(LinesOf(wdir[w], "stdout")) = 0

\* C16: a worker holds the mutex exactly while it is between output.Lock()
\* and the return of execute, its child having finished; a worker that waits
\* on dirs, runs its child, waits for the mutex or has terminated does not
\* hold it, whatever the outcome of the invocation it returned from; the
\* mutex is taken only by a worker at output.Lock() when it is free.
C16_LockDiscipline ==
    /\ [](\A w \in Workers : (output = w) <=> InCS(w))
    /\ [](\A w \in Workers : InCS(w) => werr[w] # NoOutcome)
    /\ [][ \A w \in Workers :
             /\ (output # w /\ output' = w) => (output = 0 /\ pc[w] = "lock")
             /\ (output = w /\ output' # w) =>
                    (pc[w] = "unlock" /\ output' = 0 /\ pc'[w] = "recv"
                     /\ returned'[wdir[w]] = returned[wdir[w]] + 1) ]_vars

\* C16 witness: a worker is back at its receive, the mutex free, after an
\* invocation whose child was ended by a signal that left the process alive.
C16_Witness ==
    /\ output = 0 /\ alive
    /\ \E w \in Workers : /\ pc[w] = "recv" /\ wdir[w] # NoDir
                          /\ werr[w] = [kind |-> "signal", sig |-> "SIGUSR1"]
                          /\ returned[wdir[w]] = 1

\* C17: for a directory D the walker was called for and that could not be
\* read (by filepath.Walk or by the walker's ReadDir), an error line for D
\* has been written, neither D nor anything below D is found or executed,
\* and a run that finishes has executed every listable repository it
\* visited.
C17_TraversalErrors ==
    \A D \in visited :
        tree[D] \in {"noread", "flaky"} =>
            /\ \E k \in DOMAIN out : out[k].src = "walker" /\ out[k].dir = D
            /\ \A Q \in Dirs :
                 IsPrefix(D, Q) => (Q \notin Range(found) /\ executed[Q] = 0)
            /\ pcMain = "done" =>
                 \A R \in visited : tree[R] = "repo" => executed[R] = 1

\* The root found[k] has been received by a worker.
Received(k) ==
    \/ executed[found[k]] >= 1
    \/ \E w \in Workers : pc[w] = "run" /\ wdir[w] = found[k]

\* The roots found and not yet received.
Pending == {k \in DOMAIN found : ~Received(k)}

\* C18: at most one root is found and not yet received, and there is one
\* exactly while the walker is in its send, which is for the directory it is
\* visiting; while it is in its send the walker visits and finds nothing,
\* and it leaves the send only by a worker that was at its receive taking
\* that root, so it stays there while every worker is busy.
C18_Throttling ==
    /\ [](Cardinality(Pending) <= 1)
    /\ []((pcMain = "send") <=> (Pending # {}))
    /\ [](pcMain = "send" => (Pending = {Len(found)} /\ Head(todo) = found[Len(found)]))
    /\ [][ pcMain = "send" =>
             /\ visited' = visited /\ found' = found
             /\ pcMain' # "send" =>
                  \E w \in Workers : /\ pc[w] = "recv" /\ pc'[w] = "run"
                                     /\ wdir'[w] = found[Len(found)] ]_vars

\* C18 witness: the walker is in its send for a second root while the only
\* worker is running the child of the first.
C18_Witness ==
    /\ pcMain = "send" /\ concurrency = 1 /\ Len(found) = 2
    /\ pc[1] = "child" /\ wdir[1] = found[1]

\* The bytes the child of the invocation in d wrote to a stream of the parent.
ChildBytes(d, stream) ==
    LET sel == SelectSeq(out, LAMBDA r : r.src = "child" /\ r.dir = d /\ r.stream = stream)
    IN [k \in 1..Len(sel) |-> sel[k].data[1]]

\* Every write of kind k1 for the invocation in d comes before every write
\* of kind k2 for it.
Precedes(d, srcs1, kinds1, kinds2) ==
    \A a, b \in DOMAIN out :
        ( /\ out[a].dir = d /\ out[a].src \in srcs1 /\ out[a].kind \in kinds1
          /\ out[b].dir = d /\ out[b].src = "execute" /\ out[b].kind \in kinds2 )
        => a < b

\* C19: a child's own writes to the parent's streams are made with the mutex
\* free; with concurrency 1 an invocation that is past its status branch has
\* all bytes of its child in the output, before its status or failure line;
\* with captured output the status or failure line comes before the flushed
\* bytes.
C19_DirectOrdering ==
    /\ \A k \in DOMAIN out : out[k].src = "child" => (~out[k].held /\ ~out[k].busy)
    /\ \A d \in Dirs :
         (concurrency = 1 /\ PastStatus(d)) =>
             /\ ChildBytes(d, "stdout") = wroteOf[d].out
             /\ ChildBytes(d, "stderr") = wroteOf[d].err
             /\ Precedes(d, {"child"}, {"stdout", "stderr"}, {"ok", "fail"})
    /\ \A d \in Dirs :
         concurrency # 1 => Precedes(d, {"execute"}, {"ok", "fail"}, {"stdout", "stderr"})

\* C19 witness: with concurrency 1 and without quiet, a successful invocation
\* has returned: its child's bytes A, B, E and then its status line are in
\* the output.
C19_Witness ==
    /\ concurrency = 1 /\ ~quiet
    /\ \E d \in Dirs : /\ returned[d] = 1 /\ outcomeOf[d].kind = "success"
                       /\ ChildBytes(d, "stdout") = <<"A", "B">>
                       /\ Len(LinesOf(d, "ok")) = 1

\* Nothing of the captured output of the invocation in d has been written.
Unflushed(d) == Len(LinesOf(d, "stdout")) = 0 /\ Len(LinesOf(d, "stderr")) = 0

\* The process has been terminated with a fatal signal relayed for d.
KilledBy(d) ==
    /\ ~alive
    /\ \E k \in DOMAIN relayed : relayed[k].dir = d /\ relayed[k].sig \in FatalSignals

\* C20 as stated: a worker at the relay holds the mutex, has written its
\* failure line and has flushed nothing; and when the process has been
\* terminated by a relayed signal with captured output, nothing of the
\* captured output of the signaled invocation has been written.
C20_Original ==
    /\ \A w \in Workers :
         pc[w] = "relay" =>
             (output = w /\ Len(LinesOf(wdir[w], "fail")) = 1 /\ Unflushed(wdir[w]))
    /\ \A d \in Dirs : (concurrency # 1 /\ KilledBy(d)) => Unflushed(d)

\* C20 amended: the self-signal is sent by a worker that holds the mutex,
\* has written its failure line and has flushed nothing of the captured
\* output; the signal takes effect at some later moment, and from the moment
\* the process is terminated nothing more is written, executed or relayed.
C20_RelayPosition ==
    /\ [](\A w \in Workers :
            pc[w] = "relay" =>
                (output = w /\ Len(LinesOf(wdir[w], "fail")) = 1 /\ Unflushed(wdir[w])))
    /\ [][ relayed' # relayed =>
             \E w \in Workers :
                 /\ pc[w] = "relay" /\ output = w /\ werr[w].kind = "signal"
                 /\ relayed' = Append(relayed, [dir |-> wdir[w], sig |-> werr[w].sig])
                 /\ Len(LinesOf(wdir[w], "fail")) = 1 /\ Unflushed(wdir[w]) ]_vars
    /\ [][ ~alive => (out' = out /\ executed' = executed /\ relayed' = relayed) ]_vars
    /\ [](~alive => \E d \in Dirs : KilledBy(d))

\* C20 witness: with captured output, the process has been terminated by the
\* signal relayed for its first root before anything of that root's captured
\* output was written, and the walker is left in its send for a second root.
C20_Witness ==
    /\ concurrency # 1 /\ Len(found) = 2 /\ pcMain = "send"
    /\ KilledBy(found[1]) /\ Unflushed(found[1])
    /\ executed[found[2]] = 0

====
